---- MODULE Spec2Model ----
(***************************************************************************)
(* A model of MarkovEmailDetector (src/phishingEmailDetector.py): the text *)
(* normaliser (preprocess_email, tokenize), the n-gram tables built by     *)
(* build_chain, the scorer calculate_log_probability, the decision rule of *)
(* detect and the rule-based extract_features.                             *)
(*                                                                         *)
(* Texts are TLA+ strings; a character is a string of length 1.  Python's  *)
(* regular expressions are modelled by matchers that follow the leftmost,  *)
(* greedy, backtracking search of the re module on ASCII text.             *)
(*                                                                         *)
(* Real numbers: a log-score is kept exactly, as the logarithm of          *)
(* (num/den) * (1e-10)^unseen, where num/den is the product of the         *)
(* count/total terms and unseen counts the log(1e-10) terms.  Rounding of  *)
(* IEEE doubles is not modelled.                                           *)
(***************************************************************************)
EXTENDS Integers, Sequences, FiniteSets, TLC

VARIABLES order, legitimate_chain, phishing_chain, legitimate_count,
          phishing_count, trained,
          last_call, email, result,
          legit_log, phish_log, phishing_done

vars == <<order, legitimate_chain, phishing_chain, legitimate_count,
          phishing_count, trained, last_call, email, result,
          legit_log, phish_log, phishing_done>>

-----------------------------------------------------------------------------
(* Characters and character classes                                        *)

Ch(s, i) == IF i >= 1 /\ i <= Len(s) THEN SubSeq(s, i, i) ELSE ""

Slice(s, i, j) == IF i >= 1 /\ j <= Len(s) /\ i <= j THEN SubSeq(s, i, j) ELSE ""

LowerAlphabet == "abcdefghijklmnopqrstuvwxyz"

UpperAlphabet == "ABCDEFGHIJKLMNOPQRSTUVWXYZ"

LowerLetters == {Ch(LowerAlphabet, i) : i \in 1..Len(LowerAlphabet)}

UpperLetters == {Ch(UpperAlphabet, i) : i \in 1..Len(UpperAlphabet)}

Letters == LowerLetters \cup UpperLetters

Digits == {"0", "1", "2", "3", "4", "5", "6", "7", "8", "9"}

WordChars == Letters \cup Digits \cup {"_"}

Whitespace == {" ", "\t", "\n", "\r"}

EmailLocalChars == Letters \cup Digits \cup {".", "_", "%", "+", "-"}

EmailDomainChars == Letters \cup Digits \cup {".", "-"}

EmailTldChars == Letters \cup {"|"}

(* str.lower() on ASCII *)
LowerChar(c) ==
    IF c \in UpperLetters
    THEN Ch(LowerAlphabet, CHOOSE i \in 1..Len(UpperAlphabet) : Ch(UpperAlphabet, i) = c)
    ELSE c

RECURSIVE LowerFrom(_, _)
LowerFrom(s, i) ==
    IF i > Len(s) THEN "" ELSE LowerChar(Ch(s, i)) \o LowerFrom(s, i + 1)

lower(s) == LowerFrom(s, 1)

(* \b at the position before character i (1 <= i <= Len(s) + 1) *)
WordBoundary(s, i) ==
    (Ch(s, i - 1) \in WordChars) # (Ch(s, i) \in WordChars)

(* The end (exclusive) of the maximal run of characters of class cs from i *)
RECURSIVE RunEnd(_, _, _)
RunEnd(s, i, cs) ==
    IF i <= Len(s) /\ Ch(s, i) \in cs THEN RunEnd(s, i + 1, cs) ELSE i

(* The end (exclusive) of the maximal run of characters outside cs from i *)
RECURSIVE RunEndNot(_, _, _)
RunEndNot(s, i, cs) ==
    IF i <= Len(s) /\ Ch(s, i) \notin cs THEN RunEndNot(s, i + 1, cs) ELSE i

Max(S) == CHOOSE x \in S : \A y \in S : y <= x

-----------------------------------------------------------------------------
(* The four patterns.  Each matcher gives the end (exclusive) of the match *)
(* that starts at i, or 0 when the pattern does not match at i.            *)

(* http[s]?://\S+ *)
UrlMatch(s, i) ==
    LET p == IF Slice(s, i, i + 7) = "https://" THEN i + 8
             ELSE IF Slice(s, i, i + 6) = "http://" THEN i + 7
             ELSE 0
        e == RunEndNot(s, p, Whitespace)
    IN  IF p > 0 /\ e > p THEN e ELSE 0

(* \b[A-Za-z0-9._%+-]+@[A-Za-z0-9.-]+\.[A-Z|a-z]{2,}\b *)
EmailMatch(s, i) ==
    LET j == RunEnd(s, i, EmailLocalChars)
        e == RunEnd(s, j + 1, EmailDomainChars)
        dots == {p \in (j + 2)..(e - 1) : Ch(s, p) = "."}
        ends(p) == {q \in (p + 3)..RunEnd(s, p + 1, EmailTldChars) : WordBoundary(s, q)}
        good == {p \in dots : ends(p) # {}}
    IN  IF WordBoundary(s, i) /\ j > i /\ Ch(s, j) = "@" /\ good # {}
        THEN Max(ends(Max(good)))
        ELSE 0

(* \$\d+(?:\.\d+)? *)
MoneyMatch(s, i) ==
    LET d == RunEnd(s, i + 1, Digits)
        f == RunEnd(s, d + 1, Digits)
    IN  IF Ch(s, i) = "$" /\ d > i + 1
        THEN IF Ch(s, d) = "." /\ f > d + 1 THEN f ELSE d
        ELSE 0

(* \b\d+\b *)
NumberMatch(s, i) ==
    LET e == RunEnd(s, i, Digits)
    IN  IF WordBoundary(s, i) /\ e > i /\ WordBoundary(s, e) THEN e ELSE 0

MatchEnd(kind, s, i) ==
    CASE kind = "url" -> UrlMatch(s, i)
      [] kind = "email" -> EmailMatch(s, i)
      [] kind = "money" -> MoneyMatch(s, i)
      [] kind = "number" -> NumberMatch(s, i)

(* re.sub(pattern, repl, s): leftmost non-overlapping matches, left to right *)
RECURSIVE SubFrom(_, _, _, _)
SubFrom(kind, repl, s, i) ==
    IF i > Len(s) THEN ""
    ELSE LET e == MatchEnd(kind, s, i)
         IN  IF e > 0 THEN repl \o SubFrom(kind, repl, s, e)
             ELSE Ch(s, i) \o SubFrom(kind, repl, s, i + 1)

re_sub(kind, repl, s) == SubFrom(kind, repl, s, 1)

(* re.findall(pattern, s): the matched substrings, left to right *)
RECURSIVE FindAllFrom(_, _, _)
FindAllFrom(kind, s, i) ==
    IF i > Len(s) THEN <<>>
    ELSE LET e == MatchEnd(kind, s, i)
         IN  IF e > 0 THEN <<Slice(s, i, e - 1)>> \o FindAllFrom(kind, s, e)
             ELSE FindAllFrom(kind, s, i + 1)

re_findall(kind, s) == FindAllFrom(kind, s, 1)

(* needle in haystack *)
Contains(haystack, needle) ==
    \E i \in 1..(Len(haystack) - Len(needle) + 1) :
        Slice(haystack, i, i + Len(needle) - 1) = needle

-----------------------------------------------------------------------------
(* The normaliser                                                          *)

UrlTag == "<URL>"

EmailTag == "<EMAIL>"

MoneyTag == "<MONEY>"

NumberTag == "<NUMBER>"

(* The four substitution passes, each a function of the text it is given *)
mask_urls[s \in STRING] == re_sub("url", UrlTag, s)

mask_emails[s \in STRING] == re_sub("email", EmailTag, s)

mask_money[s \in STRING] == re_sub("money", MoneyTag, s)

mask_numbers[s \in STRING] == re_sub("number", NumberTag, s)

preprocess_email(text) ==
    mask_numbers[mask_money[mask_emails[mask_urls[lower(text)]]]]

(* re.findall(r'\w+|[^\w\s]', text) *)
RECURSIVE TokensFrom(_, _)
TokensFrom(s, i) ==
    IF i > Len(s) THEN <<>>
    ELSE IF Ch(s, i) \in WordChars
         THEN LET e == RunEnd(s, i, WordChars)
              IN  <<Slice(s, i, e - 1)>> \o TokensFrom(s, e)
    ELSE IF Ch(s, i) \in Whitespace THEN TokensFrom(s, i + 1)
    ELSE <<Ch(s, i)>> \o TokensFrom(s, i + 1)

tokenize(text) == TokensFrom(text, 1)

-----------------------------------------------------------------------------
(* The emails the calls are made with                                      *)

(* The most emails one model is trained on *)
MaxTrain == 2

(* The most emails in one training call *)
MaxBatch == 2

(* def __init__(self, order: int = 2) *)
DefaultOrder == 2

Orders == {1, DefaultOrder}

TrainEmails == {"a b a b c", "Pay $5", "a b"}

DetectEmails == TrainEmails \cup {"", " \n", "A B C", "x y z", "urgent: a b a"}

(* processed = self.preprocess_email(email); tokens = self.tokenize(processed),
   tabulated over the emails of the model *)
TokensOfEmail == [e \in DetectEmails |-> tokenize(preprocess_email(e))]

Tokens(raw) == TokensOfEmail[raw]

-----------------------------------------------------------------------------
(* The n-gram tables.  A chain is a function from the contexts present to  *)
(* a function from the next tokens present to their counts, as the         *)
(* defaultdict of defaultdict(int) holds them.                             *)

EmptyChain == <<>>

(* chain[state][next_token] += 1 on a defaultdict(lambda: defaultdict(int)):
   a missing context or next token is inserted, then counted *)
AddCount(chain, state, next_token) ==
    IF state \in DOMAIN chain
    THEN IF next_token \in DOMAIN chain[state]
         THEN [chain EXCEPT ![state] = [@ EXCEPT ![next_token] = @ + 1]]
         ELSE [chain EXCEPT ![state] = (next_token :> 1) @@ @]
    ELSE (state :> (next_token :> 1)) @@ chain

RECURSIVE BuildFrom(_, _, _, _)
BuildFrom(tokens, chain, k, i) ==
    IF i >= Len(tokens) - k THEN chain
    ELSE BuildFrom(tokens,
                   AddCount(chain, SubSeq(tokens, i + 1, i + k), tokens[i + k + 1]),
                   k, i + 1)

(* Variant: the loop stops one window early *)
BuildChainSkipsLast(tokens, chain, k) ==
    BuildFrom(SubSeq(tokens, 1, Len(tokens) - 1), chain, k, 0)

(* for i in range(len(tokens) - self.order): chain[state][next_token] += 1 *)
build_chain(tokens, chain, k) == BuildFrom(tokens, chain, k, 0)

RECURSIVE TrainLegitimateFrom(_, _, _)
TrainLegitimateFrom(self, emails, i) ==
    IF i > Len(emails) THEN self
    ELSE LET tokens == Tokens(emails[i])
         IN  TrainLegitimateFrom(
                 [self EXCEPT
                     !.legitimate_chain = build_chain(tokens, @, self.order),
                     !.legitimate_count = @ + 1],
                 emails, i + 1)

(* Variant: legitimate training also marks the detector trained *)
TrainLegitimateSetsTrained(self, emails) ==
    [TrainLegitimateFrom(self, emails, 1) EXCEPT !.trained = TRUE]

(* Variant: every training call starts from a fresh table *)
TrainLegitimateResets(self, emails) ==
    TrainLegitimateFrom([self EXCEPT !.legitimate_chain = EmptyChain], emails, 1)

train_legitimate(self, emails) == TrainLegitimateFrom(self, emails, 1)

RECURSIVE TrainPhishingFrom(_, _, _)
TrainPhishingFrom(self, emails, i) ==
    IF i > Len(emails) THEN self
    ELSE LET tokens == Tokens(emails[i])
         IN  TrainPhishingFrom(
                 [self EXCEPT
                     !.phishing_chain = build_chain(tokens, @, self.order),
                     !.phishing_count = @ + 1],
                 emails, i + 1)

train_phishing(self, emails) ==
    [TrainPhishingFrom(self, emails, 1) EXCEPT !.trained = TRUE]

-----------------------------------------------------------------------------
(* The scorer                                                              *)

RECURSIVE GCD(_, _)
GCD(a, b) == IF b = 0 THEN a ELSE GCD(b, a % b)

RECURSIVE SumOver(_, _)
SumOver(f, S) ==
    IF S = {} THEN 0
    ELSE LET x == CHOOSE y \in S : TRUE IN f[x] + SumOver(f, S \ {x})

(* sum(chain[state].values()) *)
Total(counts) == SumOver(counts, DOMAIN counts)

(* float('-inf') *)
NegInf == [kind |-> "neg_inf"]

(* The finite value log((num/den) * (1e-10)^unseen) *)
Finite(n, d, u) == [kind |-> "finite", num |-> n, den |-> d, unseen |-> u]

(* An exception leaving the function *)
Raised(e) == [kind |-> "raised", error |-> e]

(* log_prob += math.log(count / total); -inf + x is -inf *)
AddLog(acc, count, total) ==
    IF total = 0 THEN Raised("ZeroDivisionError")
    ELSE IF count = 0 THEN Raised("ValueError")
    ELSE IF acc.kind = "neg_inf" THEN acc
    ELSE LET n == acc.num * count
             d == acc.den * total
             g == GCD(n, d)
         IN  Finite(n \div g, d \div g, acc.unseen)

(* Variant: an unseen pattern costs nothing *)
AddUnseenNoPenalty(acc) == acc

(* Variant: an unseen pattern has probability zero *)
AddUnseenNegInf(acc) == NegInf

(* log_prob += math.log(1e-10) *)
AddUnseen(acc) ==
    IF acc.kind = "neg_inf" THEN acc
    ELSE Finite(acc.num, acc.den, acc.unseen + 1)

(* Variant: the context is read as chain[state], which inserts it *)
ChainAfterLookupInserts(chain, state, next_token) ==
    IF state \in DOMAIN chain THEN chain ELSE (state :> <<>>) @@ chain

(* The chain after the test `state in chain and next_token in chain[state]`:
   membership tests do not insert into a defaultdict, and chain[state] is
   evaluated only for a context that is present *)
ChainAfterLookup(chain, state, next_token) == chain

RECURSIVE ScoreFrom(_, _, _, _, _)
ScoreFrom(tokens, chain, k, i, acc) ==
    IF i >= Len(tokens) - k \/ acc.kind = "raised"
    THEN [score |-> acc, chain |-> chain]
    ELSE LET state == SubSeq(tokens, i + 1, i + k)
             next_token == tokens[i + k + 1]
             seen == state \in DOMAIN chain /\ next_token \in DOMAIN chain[state]
             after == ChainAfterLookup(chain, state, next_token)
         IN  ScoreFrom(tokens, after, k, i + 1,
                       IF seen
                       THEN AddLog(acc, chain[state][next_token], Total(chain[state]))
                       ELSE AddUnseen(acc))

(* Returns the score and the chain as the call leaves it *)
calculate_log_probability(tokens, chain, k) ==
    IF Len(tokens) < k + 1
    THEN [score |-> NegInf, chain |-> chain]
    ELSE ScoreFrom(tokens, chain, k, 0, Finite(1, 1, 0))

-----------------------------------------------------------------------------
(* Exact arithmetic for the softmax step.  A natural number is a numeral   *)
(* in base 1e10, least significant digit first; a real is a quotient of    *)
(* two of them.  A digit never reaches 1e10 here, so no carry arises.      *)

(* 1e-10 = (1 / UnseenRoot)^2 *)
UnseenRoot == 100000

RECURSIVE Zeros(_)
Zeros(n) == IF n <= 0 THEN <<>> ELSE <<0>> \o Zeros(n - 1)

RECURSIVE Trim(_)
Trim(p) == IF Len(p) > 1 /\ p[Len(p)] = 0 THEN Trim(SubSeq(p, 1, Len(p) - 1)) ELSE p

Digit(p, i) == IF i >= 1 /\ i <= Len(p) THEN p[i] ELSE 0

NumAdd(p, q) ==
    LET n == IF Len(p) > Len(q) THEN Len(p) ELSE Len(q)
    IN  Trim([i \in 1..n |-> Digit(p, i) + Digit(q, i)])

RECURSIVE ConvSum(_, _, _, _)
ConvSum(p, q, k, i) ==
    IF i > Len(p) THEN 0 ELSE p[i] * Digit(q, k + 1 - i) + ConvSum(p, q, k, i + 1)

NumMul(p, q) == Trim([k \in 1..(Len(p) + Len(q) - 1) |-> ConvSum(p, q, k, 1)])

IsZero(p) == \A i \in 1..Len(p) : p[i] = 0

RECURSIVE DigitsGCD(_, _)
DigitsGCD(p, i) == IF i > Len(p) THEN 0 ELSE GCD(p[i], DigitsGCD(p, i + 1))

NaN == [kind |-> "nan"]

Real(n, d) == [kind |-> "real", num |-> n, den |-> d]

(* The quotient n/d in lowest terms of its digits *)
RECURSIVE Norm(_, _)
Norm(n, d) ==
    IF IsZero(n) THEN Real(<<0>>, <<1>>)
    ELSE IF Len(n) > 1 /\ Len(d) > 1 /\ n[1] = 0 /\ d[1] = 0 THEN Norm(Tail(n), Tail(d))
    ELSE LET g == GCD(DigitsGCD(n, 1), DigitsGCD(d, 1))
         IN  Real([i \in 1..Len(n) |-> n[i] \div g], [i \in 1..Len(d) |-> d[i] \div g])

FromInt(n) == Real(<<n>>, <<1>>)

RealAdd(x, y) ==
    IF x.kind = "nan" \/ y.kind = "nan" THEN NaN
    ELSE Norm(NumAdd(NumMul(x.num, y.den), NumMul(y.num, x.den)), NumMul(x.den, y.den))

RealMul(x, y) ==
    IF x.kind = "nan" \/ y.kind = "nan" THEN NaN
    ELSE Norm(NumMul(x.num, y.num), NumMul(x.den, y.den))

(* x / y; Python raises ZeroDivisionError for a float division by zero *)
RealDiv(x, y) ==
    IF x.kind = "nan" \/ y.kind = "nan" THEN NaN
    ELSE IF IsZero(y.num) THEN Raised("ZeroDivisionError")
    ELSE Norm(NumMul(x.num, y.den), NumMul(x.den, y.num))

(* l * 1e10^k > r, for naturals l, r and k >= 0 *)
RECURSIVE GTScaled(_, _, _)
GTScaled(l, k, r) ==
    IF k = 0 THEN l > r
    ELSE GTScaled(l, k - 1, (r \div UnseenRoot) \div UnseenRoot)

(* a > b on floats that are -inf or finite log-scores *)
ScoreGT(a, b) ==
    IF a.kind = "neg_inf" THEN FALSE
    ELSE IF b.kind = "neg_inf" THEN TRUE
    ELSE LET l == a.num * b.den
             r == b.num * a.den
         IN  IF a.unseen = b.unseen THEN l > r
             ELSE IF a.unseen < b.unseen THEN GTScaled(l, b.unseen - a.unseen, r)
             ELSE ~GTScaled(r, a.unseen - b.unseen, l - 1)

(* max(a, b): the first argument unless the second is greater *)
PyMax(a, b) == IF ScoreGT(b, a) THEN b ELSE a

(* math.exp(s - m), where m is max(s, the other score): m is -inf only
   when s is *)
ExpDiff(s, m) ==
    IF s.kind = "neg_inf" /\ m.kind = "neg_inf" THEN NaN
    ELSE IF s.kind = "neg_inf" THEN FromInt(0)
    ELSE LET n == s.num * m.den
             d == s.den * m.num
             g == GCD(n, d)
             e == s.unseen - m.unseen
         IN  IF e >= 0 THEN Norm(<<n \div g>>, Zeros(e) \o <<d \div g>>)
             ELSE Norm(Zeros(0 - e) \o <<n \div g>>, <<d \div g>>)

Half == Real(<<1>>, <<2>>)

Hundred == FromInt(100)

Fifty == Real(<<50>>, <<1>>)

-----------------------------------------------------------------------------
(* The rule-based feature extractor                                        *)

urgency_words == <<"urgent", "immediate", "act now", "expire", "suspended",
                   "verify", "confirm", "update", "security alert">>

suspicious_domains == <<".tk", ".ml", ".ga", "bit.ly", "tinyurl">>

personal_info == <<"password", "ssn", "social security", "credit card",
                   "account number", "pin", "banking">>

greeting_targets == <<"customer", "user", "member">>

misspellings == <<"recieve", "seperate", "occured", "privilage">>

(* Variant: len(urls) > 1 *)
MultipleUrlsOverOne == 2 - 1

(* len(urls) > MultipleUrlsOver *)
MultipleUrlsOver == 2

UrgencyFinding(word) == "Urgency keyword: '" \o word \o "'"

MultipleUrlsFinding(n) == "Multiple URLs (" \o ToString(n) \o ")"

DomainFinding(domain) == "Suspicious domain: " \o domain

SensitiveFinding(term) == "Requests sensitive info: '" \o term \o "'"

GreetingFinding == "Generic greeting (no name)"

TypoFinding(word) == "Possible typo: '" \o word \o "'"

(* for word in words: if word in text: features.append(...) *)
RECURSIVE ScanLexicon(_, _, _, _)
ScanLexicon(words, text, kind, i) ==
    IF i > Len(words) THEN <<>>
    ELSE (IF Contains(text, words[i])
          THEN <<CASE kind = "urgency" -> UrgencyFinding(words[i])
                   [] kind = "sensitive" -> SensitiveFinding(words[i])
                   [] kind = "typo" -> TypoFinding(words[i])>>
          ELSE <<>>) \o ScanLexicon(words, text, kind, i + 1)

(* for url in urls: for domain in suspicious_domains: if domain in url *)
RECURSIVE ScanDomains(_, _, _)
ScanDomains(urls, u, d) ==
    IF u > Len(urls) THEN <<>>
    ELSE IF d > Len(suspicious_domains) THEN ScanDomains(urls, u + 1, 1)
    ELSE (IF Contains(urls[u], suspicious_domains[d])
          THEN <<DomainFinding(suspicious_domains[d])>>
          ELSE <<>>) \o ScanDomains(urls, u, d + 1)

(* re.search(r'dear (customer|user|member)', text_lower) *)
GreetingMatch(text) ==
    \E i \in 1..Len(greeting_targets) : Contains(text, "dear " \o greeting_targets[i])

extract_features(raw) ==
    LET text_lower == lower(raw)
        urls == re_findall("url", raw)
    IN  ScanLexicon(urgency_words, text_lower, "urgency", 1)
        \o (IF Len(urls) > MultipleUrlsOver THEN <<MultipleUrlsFinding(Len(urls))>> ELSE <<>>)
        \o ScanDomains(urls, 1, 1)
        \o ScanLexicon(personal_info, text_lower, "sensitive", 1)
        \o (IF GreetingMatch(text_lower) THEN <<GreetingFinding>> ELSE <<>>)
        \o ScanLexicon(misspellings, text_lower, "typo", 1)

(* features = self.extract_features(email), tabulated over the emails of
   the model *)
FeaturesOfEmail == [e \in DetectEmails |-> extract_features(e)]

Features(raw) == FeaturesOfEmail[raw]

-----------------------------------------------------------------------------
(* The decision rule                                                       *)

(* Variant: is_phishing = phishing_score >= legit_score *)
DecideTieToPhishing(legit_score, phishing_score) ==
    IF legit_score.kind = "neg_inf" /\ phishing_score.kind = "neg_inf"
    THEN [kind |-> "ok", confidence |-> Half, is_phishing |-> FALSE]
    ELSE LET max_score == PyMax(legit_score, phishing_score)
             legit_exp == ExpDiff(legit_score, max_score)
             phishing_exp == ExpDiff(phishing_score, max_score)
             total == RealAdd(legit_exp, phishing_exp)
             phishing_prob == RealDiv(phishing_exp, total)
         IN  [kind |-> "ok", confidence |-> phishing_prob,
              is_phishing |-> ~ScoreGT(legit_score, phishing_score)]

(* Variant: the fallback confidence is 0.0 *)
DecideFallbackZero(legit_score, phishing_score) ==
    IF legit_score.kind = "neg_inf" /\ phishing_score.kind = "neg_inf"
    THEN [kind |-> "ok", confidence |-> FromInt(0), is_phishing |-> FALSE]
    ELSE LET max_score == PyMax(legit_score, phishing_score)
             legit_exp == ExpDiff(legit_score, max_score)
             phishing_exp == ExpDiff(phishing_score, max_score)
             total == RealAdd(legit_exp, phishing_exp)
             phishing_prob == RealDiv(phishing_exp, total)
         IN  [kind |-> "ok", confidence |-> phishing_prob,
              is_phishing |-> ScoreGT(phishing_score, legit_score)]

(* STEP 3 of detect: the fallback for two -inf scores, else the softmax *)
Decide(legit_score, phishing_score) ==
    IF legit_score.kind = "neg_inf" /\ phishing_score.kind = "neg_inf"
    THEN [kind |-> "ok", confidence |-> Half, is_phishing |-> FALSE]
    ELSE LET max_score == PyMax(legit_score, phishing_score)
             legit_exp == ExpDiff(legit_score, max_score)
             phishing_exp == ExpDiff(phishing_score, max_score)
             total == RealAdd(legit_exp, phishing_exp)
             phishing_prob == RealDiv(phishing_exp, total)
         IN  IF phishing_prob.kind = "raised" THEN phishing_prob
             ELSE [kind |-> "ok", confidence |-> phishing_prob,
                   is_phishing |-> ScoreGT(phishing_score, legit_score)]

NotTrained == [kind |-> "error", error |-> "Model not trained"]

(* Returns the detector as the call leaves it and the value returned *)
detect(self, raw) ==
    IF ~self.trained THEN [self |-> self, ret |-> NotTrained]
    ELSE LET tokens == Tokens(raw)
             l == calculate_log_probability(tokens, self.legitimate_chain, self.order)
             p == calculate_log_probability(tokens, self.phishing_chain, self.order)
             after == [self EXCEPT !.legitimate_chain = l.chain,
                                   !.phishing_chain = p.chain]
             d == Decide(l.score, p.score)
         IN  IF l.score.kind = "raised"
             THEN [self |-> [self EXCEPT !.legitimate_chain = l.chain], ret |-> l.score]
             ELSE IF p.score.kind = "raised" THEN [self |-> after, ret |-> p.score]
             ELSE IF d.kind = "raised" THEN [self |-> after, ret |-> d]
             ELSE [self |-> after,
                   ret |-> [kind |-> "detection",
                            is_phishing |-> d.is_phishing,
                            confidence |-> RealMul(d.confidence, Hundred),
                            legitimate_score |-> l.score,
                            phishing_score |-> p.score,
                            suspicious_features |-> Features(raw),
                            verdict |-> IF d.is_phishing THEN "PHISHING" ELSE "LEGITIMATE"]]

-----------------------------------------------------------------------------
(* The state machine: one detector and the calls made on it                *)

RECURSIVE SeqsUpTo(_, _)
SeqsUpTo(S, n) ==
    IF n = 0 THEN {<<>>}
    ELSE LET shorter == SeqsUpTo(S, n - 1)
         IN  shorter \cup {Append(q, x) : q \in {r \in shorter : Len(r) = n - 1}, x \in S}

Batches == SeqsUpTo(TrainEmails, MaxBatch)

NoResult == [kind |-> "none"]

Self ==
    [order |-> order,
     legitimate_chain |-> legitimate_chain,
     phishing_chain |-> phishing_chain,
     legitimate_count |-> legitimate_count,
     phishing_count |-> phishing_count,
     trained |-> trained]

Becomes(self) ==
    /\ order' = self.order
    /\ legitimate_chain' = self.legitimate_chain
    /\ phishing_chain' = self.phishing_chain
    /\ legitimate_count' = self.legitimate_count
    /\ phishing_count' = self.phishing_count
    /\ trained' = self.trained

(* MarkovEmailDetector(order) *)
Constructed(k) ==
    /\ order = k
    /\ legitimate_chain = EmptyChain
    /\ phishing_chain = EmptyChain
    /\ legitimate_count = 0
    /\ phishing_count = 0
    /\ trained = FALSE
    /\ last_call = "init"
    /\ result = NoResult
    /\ legit_log = <<>>
    /\ phish_log = <<>>
    /\ phishing_done = FALSE

Init == \E k \in Orders : Constructed(k) /\ email = ""

TrainLegitimate(emails) ==
    /\ Len(legit_log) + Len(emails) <= MaxTrain
    /\ Becomes(train_legitimate(Self, emails))
    /\ last_call' = "train_legitimate"
    /\ email' = ""
    /\ result' = NoResult
    /\ legit_log' = legit_log \o emails
    /\ UNCHANGED <<phish_log, phishing_done>>

TrainPhishing(emails) ==
    /\ Len(phish_log) + Len(emails) <= MaxTrain
    /\ Becomes(train_phishing(Self, emails))
    /\ last_call' = "train_phishing"
    /\ email' = ""
    /\ result' = NoResult
    /\ phish_log' = phish_log \o emails
    /\ phishing_done' = TRUE
    /\ UNCHANGED legit_log

Detect(raw) ==
    LET r == detect(Self, raw)
    IN  /\ Becomes(r.self)
        /\ last_call' = "detect"
        /\ email' = raw
        /\ result' = r.ret
        /\ UNCHANGED <<legit_log, phish_log, phishing_done>>

Next ==
    \/ \E emails \in Batches : TrainLegitimate(emails)
    \/ \E emails \in Batches : TrainPhishing(emails)
    \/ \E raw \in DetectEmails : Detect(raw)

Spec == Init /\ [][Next]_vars

-----------------------------------------------------------------------------
(* The text functions on their own: preprocess_email, tokenize and         *)
(* extract_features called on a fresh detector with one text               *)

(* The most fragments joined into one text *)
MaxFrags == 3

Fragments == {"URGENT:", "http://x.tk", "https://bit.ly/a http://b.ga", "Dear User",
              "recieve password", "me@test.com", "$500 42"}

LiteralTexts == {"Contact me@test.com or visit http://evil.tk now, pay $500",
                 "URGENT: verify your password now at http://x.tk",
                 " \t\n"}

RECURSIVE Join(_, _)
Join(frags, i) ==
    IF i > Len(frags) THEN ""
    ELSE IF i = Len(frags) THEN frags[i]
    ELSE frags[i] \o " " \o Join(frags, i + 1)

Texts == LiteralTexts \cup {Join(f, 1) : f \in SeqsUpTo(Fragments, MaxFrags)}

InitText == Constructed(DefaultOrder) /\ email \in Texts

PreprocessEmail ==
    /\ last_call = "init"
    /\ last_call' = "preprocess_email"
    /\ result' = [kind |-> "text", value |-> preprocess_email(email)]
    /\ UNCHANGED <<order, legitimate_chain, phishing_chain, legitimate_count,
                   phishing_count, trained, email, legit_log, phish_log, phishing_done>>

Tokenize ==
    /\ last_call = "preprocess_email"
    /\ last_call' = "tokenize"
    /\ result' = [kind |-> "tokens", value |-> tokenize(result.value)]
    /\ UNCHANGED <<order, legitimate_chain, phishing_chain, legitimate_count,
                   phishing_count, trained, email, legit_log, phish_log, phishing_done>>

ExtractFeatures ==
    /\ last_call = "init"
    /\ last_call' = "extract_features"
    /\ result' = [kind |-> "features", value |-> extract_features(email)]
    /\ UNCHANGED <<order, legitimate_chain, phishing_chain, legitimate_count,
                   phishing_count, trained, email, legit_log, phish_log, phishing_done>>

NextText == PreprocessEmail \/ Tokenize \/ ExtractFeatures

SpecText == InitText /\ [][NextText]_vars

-----------------------------------------------------------------------------
(* Properties                                                              *)

Trainings == {"train_legitimate", "train_phishing"}

Detected == last_call = "detect" /\ result.kind = "detection"

BothFinite ==
    /\ result.legitimate_score.kind = "finite"
    /\ result.phishing_score.kind = "finite"

(* C1: detect returns the NotTrained error exactly when no train_phishing
   call has completed before it; train_legitimate calls alone never make
   detect succeed, and after one train_phishing call (even with no emails)
   detect never returns NotTrained. *)
C1_UntrainedGuard ==
    last_call = "detect" => ((result = NotTrained) <=> ~phishing_done)

C1_Witness ==
    /\ last_call = "detect"
    /\ result = NotTrained
    /\ legitimate_count = MaxTrain

(* C2: with two finite scores the verdict is PHISHING exactly when
   phishing_score > legit_score; equal scores give LEGITIMATE with confidence
   exactly 50. *)
C2_StrictVerdict ==
    (Detected /\ BothFinite) =>
        /\ (result.verdict = "PHISHING")
               <=> ScoreGT(result.phishing_score, result.legitimate_score)
        /\ (result.is_phishing <=> (result.verdict = "PHISHING"))
        /\ ((result.phishing_score = result.legitimate_score) =>
               (result.verdict = "LEGITIMATE" /\ result.confidence = Fifty))

C2_Witness ==
    /\ Detected
    /\ BothFinite
    /\ result.phishing_score = result.legitimate_score
    /\ result.phishing_score.unseen = 0
    /\ result.phishing_score.num < result.phishing_score.den

(* C3: an email whose token sequence has fewer than order + 1 tokens gets,
   on a trained detector, confidence exactly 50 and verdict LEGITIMATE,
   whatever the two models hold. *)
C3_NoveltyFallback ==
    (last_call = "detect" /\ trained /\ Len(Tokens(email)) < order + 1) =>
        /\ result.kind = "detection"
        /\ result.confidence = Fifty
        /\ result.verdict = "LEGITIMATE"

C3_Witness ==
    /\ Detected
    /\ Len(Tokens(email)) = order
    /\ legitimate_chain # EmptyChain
    /\ phishing_chain # EmptyChain

(* Each model with the emails it was trained on, in the order fed *)
Models == {<<legit_log, legitimate_chain>>, <<phish_log, phishing_chain>>}

ScoreOf(tokens, chain) == calculate_log_probability(tokens, chain, order).score

(* The tokens a never-seen sequence is drawn from *)
UnseenAlphabet == {"zz", "a"}

(* Every window of `order` tokens of u is absent from the chain *)
AllContextsAbsent(u, chain) ==
    \A i \in 1..(Len(u) - order + 1) : SubSeq(u, i, i + order - 1) \notin DOMAIN chain

BeatsUnseen(S, chain) ==
    \A u \in [1..Len(S) -> UnseenAlphabet] :
        AllContextsAbsent(u, chain) => ScoreGT(ScoreOf(S, chain), ScoreOf(u, chain))

(* C5 as stated: every trained token sequence S scores strictly higher under
   its model than any sequence of the same length made of never-seen
   contexts. *)
C5_Original ==
    last_call \in Trainings =>
        \A m \in Models : \A j \in 1..Len(m[1]) : BeatsUnseen(Tokens(m[1][j]), m[2])

(* C5 amended: the same for every trained token sequence S of at least
   order + 1 tokens (a shorter S scores -inf, as does its rival). *)
C5_ScoreMonotone ==
    last_call \in Trainings =>
        \A m \in Models : \A j \in 1..Len(m[1]) :
            Len(Tokens(m[1][j])) >= order + 1 => BeatsUnseen(Tokens(m[1][j]), m[2])

C5_Witness ==
    /\ last_call = "train_legitimate"
    /\ order = DefaultOrder
    /\ Len(legit_log) = MaxTrain
    /\ \E j \in 1..Len(legit_log) :
           /\ Len(Tokens(legit_log[j])) >= order + 1
           /\ ScoreOf(Tokens(legit_log[j]), legitimate_chain).num
                  < ScoreOf(Tokens(legit_log[j]), legitimate_chain).den

Fresh(k) ==
    [order |-> k, legitimate_chain |-> EmptyChain, phishing_chain |-> EmptyChain,
     legitimate_count |-> 0, phishing_count |-> 0, trained |-> FALSE]

Permuted(log) ==
    {[i \in 1..Len(log) |-> log[f[i]]] : f \in Permutations(1..Len(log))}

(* C6: training is commutative and additive: feeding any permutation of the
   emails a model was trained on, in one call to a fresh detector, gives the
   same contexts and the same count for every (context, next token) pair. *)
C6_Commutative ==
    last_call \in Trainings =>
        /\ \A q \in Permuted(legit_log) :
               train_legitimate(Fresh(order), q).legitimate_chain = legitimate_chain
        /\ \A q \in Permuted(phish_log) :
               train_phishing(Fresh(order), q).phishing_chain = phishing_chain

C6_Witness ==
    /\ last_call = "train_legitimate"
    /\ Len(legit_log) >= 2
    /\ legit_log[1] # legit_log[2]
    /\ \E c \in DOMAIN legitimate_chain : Total(legitimate_chain[c]) >= 3

(* C7: detect only reads the detector: a detect call leaves both chains,
   both counters and the trained flag as they were. *)
C7_DetectReadsOnly ==
    [][last_call' = "detect" =>
           UNCHANGED <<legitimate_chain, phishing_chain, legitimate_count,
                       phishing_count, trained>>]_vars

C7_Witness ==
    /\ Detected
    /\ BothFinite
    /\ legitimate_chain # EmptyChain
    /\ result.legitimate_score.unseen > 0
    /\ result.phishing_score.unseen > 0

(* The times the context was followed by a token in the emails of a log *)
Observations(log, ctx) ==
    Cardinality({w \in (1..Len(log)) \X (1..5) :
                    /\ w[2] + order <= Len(Tokens(log[w[1]]))
                    /\ SubSeq(Tokens(log[w[1]]), w[2], w[2] + order - 1) = ctx})

(* C9: every context present in a model has at least one next-token entry,
   every entry counts at least 1, and the entries of a context sum to the
   number of times the context was followed by a token in training. *)
C9_ChainCounts ==
    \A m \in Models : \A ctx \in DOMAIN m[2] :
        /\ DOMAIN m[2][ctx] # {}
        /\ \A t \in DOMAIN m[2][ctx] : m[2][ctx][t] >= 1
        /\ Total(m[2][ctx]) = Observations(m[1], ctx)

C9_Witness ==
    /\ last_call = "detect"
    /\ order = DefaultOrder
    /\ <<"a", "b">> \in DOMAIN phishing_chain
    /\ Cardinality(DOMAIN phishing_chain[<<"a", "b">>]) = 2
    /\ Total(phishing_chain[<<"a", "b">>]) = 4

NonPositive(score) ==
    /\ score.kind = "finite"
    /\ score.unseen >= 0
    /\ score.num >= 1
    /\ score.num <= score.den

(* C10: in every detect call on a trained detector the two scores are both
   -inf (fewer than order + 1 tokens) or both finite and not positive, and
   the confidence is a number: no division by zero, no NaN. *)
C10_ScoresSafe ==
    (last_call = "detect" /\ trained) =>
        /\ result.kind = "detection"
        /\ result.confidence.kind = "real"
        /\ ~IsZero(result.confidence.den)
        /\ IF Len(Tokens(email)) < order + 1
           THEN result.legitimate_score = NegInf /\ result.phishing_score = NegInf
           ELSE NonPositive(result.legitimate_score) /\ NonPositive(result.phishing_score)

C10_Witness ==
    /\ Detected
    /\ BothFinite
    /\ result.legitimate_score.unseen > 0
    /\ result.phishing_score.unseen = 0
    /\ result.phishing_score.num < result.phishing_score.den

-----------------------------------------------------------------------------
(* Properties of the text functions                                        *)

Placeholders == {UrlTag, EmailTag, MoneyTag, NumberTag}

Occurrences(text, part) ==
    Cardinality({i \in 1..Len(text) : Slice(text, i, i + Len(part) - 1) = part})

ContactText == "Contact me@test.com or visit http://evil.tk now, pay $500"

(* C4: each placeholder of the preprocessed text is one token of the
   normalised text; for ContactText the tokens hold <EMAIL>, <URL>, <MONEY>
   in that order and no token keeps a piece of the address, URL or amount. *)
C4_AtomicPlaceholders ==
    last_call = "tokenize" =>
        LET toks == result.value
        IN  /\ \A tag \in Placeholders :
                   Cardinality({i \in 1..Len(toks) : toks[i] = tag})
                       = Occurrences(preprocess_email(email), tag)
            /\ email = ContactText =>
                   /\ \E i, j, k \in 1..Len(toks) :
                          /\ i < j /\ j < k
                          /\ toks[i] = EmailTag /\ toks[j] = UrlTag /\ toks[k] = MoneyTag
                   /\ \A i \in 1..Len(toks) : toks[i] \notin {"@", "http", "$", "test", "evil"}

FindingPrefixes ==
    <<"Urgency keyword: '", "Multiple URLs (", "Suspicious domain: ",
      "Requests sensitive info: '", "Generic greeting (no name)", "Possible typo: '">>

(* The check (1..6) a finding comes from *)
CheckOf(f) ==
    CHOOSE k \in 1..Len(FindingPrefixes) :
        Slice(f, 1, Len(FindingPrefixes[k])) = FindingPrefixes[k]

OfCheck(fs, k) == SelectSeq(fs, LAMBDA f : CheckOf(f) = k)

Matching(words, text) == SelectSeq(words, LAMBDA w : Contains(text, w))

UrgentText == "URGENT: verify your password now at http://x.tk"

(* C8: the findings come in the order of the six checks; each lexicon check
   gives one finding per matching term, in lexicon order; the domain check
   one per matching (URL, marker) pair; and there is a multiple-URLs finding
   exactly when more than 2 URLs are found in the original text. *)
C8_FeatureOrder ==
    last_call = "extract_features" =>
        LET fs == result.value
            low == lower(email)
            urls == re_findall("url", email)
            urgent == Matching(urgency_words, low)
            sensitive == Matching(personal_info, low)
            typos == Matching(misspellings, low)
        IN  /\ \A i, j \in 1..Len(fs) : i < j => CheckOf(fs[i]) <= CheckOf(fs[j])
            /\ OfCheck(fs, 1) = [i \in 1..Len(urgent) |-> UrgencyFinding(urgent[i])]
            /\ OfCheck(fs, 4) = [i \in 1..Len(sensitive) |-> SensitiveFinding(sensitive[i])]
            /\ OfCheck(fs, 6) = [i \in 1..Len(typos) |-> TypoFinding(typos[i])]
            /\ Len(OfCheck(fs, 5)) <= 1
            /\ OfCheck(fs, 2) = IF Len(urls) > 2
                                THEN <<MultipleUrlsFinding(Len(urls))>> ELSE <<>>
            /\ \A d \in 1..Len(suspicious_domains) :
                   Cardinality({i \in 1..Len(fs) : fs[i] = DomainFinding(suspicious_domains[d])})
                       = Cardinality({u \in 1..Len(urls) : Contains(urls[u], suspicious_domains[d])})
            /\ email = UrgentText =>
                   fs = <<UrgencyFinding("urgent"), UrgencyFinding("verify"),
                          DomainFinding(".tk"), SensitiveFinding("password")>>

C8_Witness ==
    /\ last_call = "extract_features"
    /\ Len(OfCheck(result.value, 2)) = 1
    /\ Len(OfCheck(result.value, 3)) >= 2
    /\ Len(OfCheck(result.value, 1)) >= 1

====
